---------------------------- MODULE Spec2Model ----------------------------
(***************************************************************************)
(* The allocation ledger of the simplified server (src/unnamed/part_001):  *)
(* the three module-level stores (strategyStatus, investorStates,          *)
(* platformTotalFees) and the request handlers that touch them             *)
(* (POST /api/strategy/deposit, /api/strategies/pause, /resume); and the   *)
(* StrategyManager (src/unnamed/part_007): its strategies, its monitor     *)
(* timer and the monitor passes, whose awaits are the points where other   *)
(* calls and passes interleave.                                            *)
(*                                                                         *)
(* Numbers.  The handlers compute with JavaScript numbers (IEEE doubles).  *)
(* A number is a record [k, w, f]:                                         *)
(*    k = "fin"  the finite value  w + f / FracBase  (w whole part,        *)
(*               f the fraction, FracDigits decimal digits, one digit more *)
(*               than toFixed(8) keeps, so that rounding has work to do);  *)
(*    k = "neg"  the finite value -(w + f / FracBase);                     *)
(*    k = "inf"  Infinity;   k = "nan"  NaN.                               *)
(* Finite arithmetic is exact (decimal); a result whose whole part passes  *)
(* MaxWhole overflows to Infinity the way a double does past               *)
(* Number.MAX_VALUE, and Infinity - Infinity is NaN.  The binary           *)
(* representation error of a double is kept in one place: where toFixed(8) *)
(* meets an exact decimal tie, the double is a hair above or below it, so  *)
(* either neighbour can result (the `up` argument of ToFixed8 and          *)
(* FeeOnSwitch).                                                           *)
(***************************************************************************)
EXTENDS Integers, Sequences, FiniteSets, TLC

\* --------------------------------------------------------------- bounds
\* Largest whole part of a finite number: stands for Number.MAX_VALUE.
MaxWhole == 2000
\* Number of requests the server receives in one run.
MaxRequests == 3
\* Times the wall clock advances in one run.
MaxClock == 2

\* ------------------------------------------------------------- numbers
\* Decimal digits kept by toFixed(8) (lines 208-210).
FixedDigits == 8
FracDigits == FixedDigits + 1
FracBase == 10 ^ FracDigits
\* One unit of the 8th decimal, in units of the last modelled digit.
UnitTicks == FracBase \div (10 ^ FixedDigits)
UnitsPerWhole == 10 ^ FixedDigits

Fin(w, f) == [k |-> "fin", w |-> w, f |-> f]
Zero == Fin(0, 0)
Infinity == [k |-> "inf", w |-> 0, f |-> 0]
NaN == [k |-> "nan", w |-> 0, f |-> 0]
Negative(w, f) == [k |-> "neg", w |-> w, f |-> f]

\* Number.isFinite
IsFinite(x) == x.k \in {"fin", "neg"}

\* A finite result w + f/FracBase (f may have carried past FracBase) as a
\* double: with a whole part past the largest one it is Infinity.
Normalize(w, f) ==
    LET w2 == w + (f \div FracBase)
        f2 == f % FracBase
    IN  IF w2 > MaxWhole THEN Infinity ELSE Fin(w2, f2)

\* x < y on doubles (every comparison with NaN is false).
NumLt(x, y) ==
    CASE x.k = "nan" \/ y.k = "nan" -> FALSE
      [] x.k = "inf" -> FALSE
      [] y.k = "inf" -> TRUE
      [] x.k = "neg" /\ y.k = "neg" -> (y.w < x.w) \/ (y.w = x.w /\ y.f < x.f)
      [] x.k = "neg" -> TRUE
      [] y.k = "neg" -> FALSE
      [] OTHER -> (x.w < y.w) \/ (x.w = y.w /\ x.f < y.f)

\* x <= y on doubles.
NumLe(x, y) == x.k # "nan" /\ y.k # "nan" /\ (x = y \/ NumLt(x, y))

\* x + y on doubles, for x, y >= 0 or NaN (the handler adds nothing else).
NumAdd(x, y) ==
    CASE x.k = "nan" \/ y.k = "nan" -> NaN
      [] x.k = "inf" \/ y.k = "inf" -> Infinity
      [] OTHER -> Normalize(x.w + y.w, x.f + y.f)

\* x - y on doubles, for x, y >= 0 or NaN.
NumSub(x, y) ==
    CASE x.k = "nan" \/ y.k = "nan" -> NaN
      [] x.k = "inf" /\ y.k = "inf" -> NaN
      [] x.k = "inf" -> Infinity
      [] y.k = "inf" -> [k |-> "neg", w |-> 0, f |-> 0]
      [] NumLt(x, y) ->
            IF y.f >= x.f THEN Negative(y.w - x.w, y.f - x.f)
            ELSE Negative(y.w - x.w - 1, y.f + FracBase - x.f)
      [] OTHER ->
            IF x.f >= y.f THEN Fin(x.w - y.w, x.f - y.f)
            ELSE Fin(x.w - y.w - 1, x.f + FracBase - y.f)

\* The finite value of `units` 8th-decimal units on top of w whole units.
FromUnits(w, units) == Normalize(w, units * UnitTicks)

\* Number(x.toFixed(8)) for x >= 0 or not finite: the nearest multiple of
\* 10^-8; "Infinity" and "NaN" print and parse back as themselves.  On an
\* exact decimal tie the double's own error decides: `up` is that outcome.
ToFixed8(x, up) ==
    IF x.k # "fin" THEN x
    ELSE LET q == x.f \div UnitTicks
             r == x.f % UnitTicks
         IN  CASE 2 * r < UnitTicks -> FromUnits(x.w, q)
               [] 2 * r > UnitTicks -> FromUnits(x.w, q + 1)
               [] OTHER -> FromUnits(x.w, IF up THEN q + 1 ELSE q)

\* feeRate = 0.005 (line 206), as FeeRateNum / FeeRateDen.
FeeRateNum == 5
FeeRateDen == 1000
\* balance * feeRate, counted in 8th-decimal units, is balance's last-digit
\* count divided by FeeDivisor; a whole unit of balance yields WholeFeeUnits.
FeeDivisor == (FeeRateDen * UnitTicks) \div FeeRateNum
WholeFeeUnits == FracBase \div FeeDivisor

\* Number((balance * feeRate).toFixed(8)) (line 208); `up` decides a tie.
FeeOnSwitch(balance, up) ==
    IF balance.k # "fin" THEN balance
    ELSE LET q == balance.w * WholeFeeUnits + (balance.f \div FeeDivisor)
             r == balance.f % FeeDivisor
             AsNum(u) == FromUnits(u \div UnitsPerWhole, u % UnitsPerWhole)
         IN  CASE 2 * r < FeeDivisor -> AsNum(q)
               [] 2 * r > FeeDivisor -> AsNum(q + 1)
               [] OTHER -> AsNum(IF up THEN q + 1 ELSE q)

\* ------------------------------------------------------- request bodies
\* A field the JSON body does not carry (req.body.x is undefined).
Undefined == "<undefined>"
\* !x for a string field: undefined and "" are falsy.
Falsy(x) == x = Undefined \/ x = ""

\* The amount field as it arrives: missing, null, a JSON number or a string.
AmountMissing == [t |-> "undefined", s |-> "", n |-> Zero]
AmountNull == [t |-> "null", s |-> "", n |-> Zero]
AmountNumber(n) == [t |-> "number", s |-> "", n |-> n]
AmountString(s) == [t |-> "string", s |-> s, n |-> Zero]

\* Number(s) for the sample strings: "" is 0, a decimal numeral is its
\* value, anything else is NaN.
ParseNumber(s) ==
    CASE s = "" -> Zero
      [] s = "500" -> Fin(500, 0)
      [] OTHER -> NaN

\* Number(req.body.amount ?? 0) (line 180).
ToNumber(raw) ==
    CASE raw.t \in {"undefined", "null"} -> Zero
      [] raw.t = "number" -> raw.n
      [] OTHER -> ParseNumber(raw.s)

Body(investor, strategyId, amount, asset) ==
    [investor |-> investor, strategyId |-> strategyId, amount |-> amount, asset |-> asset]

\* ValidDeposit with `amount < 0` written for `amount <= 0`.
ValidDeposit_AllowsZero(body) ==
    LET amount == ToNumber(body.amount)
    IN  ~ ( Falsy(body.investor)
            \/ Falsy(body.strategyId)
            \/ ~IsFinite(amount)
            \/ NumLt(amount, Zero) )

\* !investor || !strategyId || !Number.isFinite(amount) || amount <= 0
\* (line 183), negated.
ValidDeposit(body) ==
    LET amount == ToNumber(body.amount)
    IN  ~ ( Falsy(body.investor)
            \/ Falsy(body.strategyId)
            \/ ~IsFinite(amount)
            \/ NumLe(amount, Zero) )

Investors == {"inv1", "inv2"}
\* The one strategy GET /api/strategies lists (lines 251, 254).
GridStrategy == "grid-strategy-1"
StrategyIds == {GridStrategy, "s1"}
Allocations == {"STABLE", "INVESTED"}

\* Sample amounts: 0.000000006 (below the 8th decimal), 0.000001 (its fee
\* is an exact tie), 500, 1000, and the largest finite number.
Tiny == Fin(0, 6)
TieAmount == Fin(0, 1000)
Huge == Fin(MaxWhole, 0)
ValidAmounts ==
    {AmountNumber(Tiny), AmountNumber(TieAmount), AmountNumber(Fin(500, 0)),
     AmountNumber(Fin(1000, 0)), AmountNumber(Huge)}
\* Amounts line 183 rejects: missing, null, 0, -1, 1e999 (parsed as
\* Infinity), "abc", "".
InvalidAmounts ==
    {AmountMissing, AmountNull, AmountNumber(Zero), AmountNumber(Negative(1, 0)),
     AmountNumber(Infinity), AmountString("abc"), AmountString("")}

\* Bodies that break one constraint, or several at once, around a valid one.
InvalidBodies ==
    {Body(i, "s1", AmountNumber(Fin(500, 0)), Undefined) : i \in {Undefined, ""}}
    \cup {Body("inv1", sid, AmountNumber(Fin(500, 0)), Undefined) : sid \in {Undefined, ""}}
    \cup {Body("inv1", "s1", a, Undefined) : a \in InvalidAmounts}
    \cup {Body(Undefined, "s1", AmountNumber(Negative(1, 0)), Undefined),
          Body(Undefined, Undefined, AmountMissing, Undefined)}

\* The deposits of the ledger runs: every investor and sample amount, a
\* numeral sent as a string, a deposit that names an asset and one that
\* names another strategy.
LedgerBodies ==
    {Body(i, "s1", a, Undefined) : i \in Investors, a \in ValidAmounts}
    \cup {Body("inv1", "s1", AmountString("500"), "USDC"),
          Body("inv1", "s1", AmountNumber(Fin(500, 0)), "USDC"),
          Body("inv1", GridStrategy, AmountNumber(Fin(500, 0)), Undefined)}
    \cup InvalidBodies

\* ---------------------------------------------------------------- state
VARIABLES
    strategyStatus,     \* Map<string, 'ACTIVE' | 'PAUSED'>          (line 14)
    investorStates,     \* Map<string, {strategyId, balance, ...}>   (line 15)
    platformTotalFees,  \* let platformTotalFees = 0                 (line 21)
    now,                \* the last reading of the wall clock (new Date())
    frames,             \* activations of the deposit handler that have begun
    nextId,             \* requests received so far, plus one
    lastResponse,       \* the object the last handler passed to res.json
    lastCall,           \* history: the request that response answers
    audit,              \* history: amounts accepted and fees returned
    serial              \* history: the ledger had each deposit run alone

\* ------------------------------------------- StrategyManager: its state
\* (src/unnamed/part_007; the application's timer is in
\* src/stellar-ai-trading-automation/src/index.ts)
VARIABLES
    strategies,       \* Map<string, Strategy>: id -> the object stored there (line 24)
    order,            \* the Map's keys in insertion order (its iteration order)
    heap,             \* every Strategy object made so far; an object is its index
    isRunning,        \* line 25
    monitorInterval,  \* line 26: the interval's handle, NoTimer for null
    timers,           \* handles setInterval returned and clearInterval has not cleared
    backgroundTimer,  \* the application's monitoring interval runs (index.ts 356)
    passes,           \* monitorStrategies activations suspended at an await
    pendingInit,      \* initialize() activations suspended at line 42
    counts,           \* history: calls, timer fires and stop() calls so far
    lastStep          \* history: what the last StrategyManager step did

managerVars == <<strategies, order, heap, isRunning, monitorInterval, timers,
                 backgroundTimer, passes, pendingInit, counts, lastStep>>

\* monitorInterval = null
NoTimer == 0
\* No object.
NoRef == 0
\* config.parameters.maxInvestments of a strategy that is not a DCA strategy.
NoCap == -1

NoStep ==
    [op |-> "none", id |-> "<undefined>", outcome |-> "none", ref |-> NoRef, pass |-> 0,
     updates |-> 0, signals |-> 0, tradeStatus |-> "NONE", prior |-> "NONE"]

\* A StrategyManager just constructed (lines 24-35), the application not started.
ManagerInit ==
    /\ strategies = [id \in {} |-> NoRef]
    /\ order = <<>>
    /\ heap = <<>>
    /\ isRunning = FALSE
    /\ monitorInterval = NoTimer
    /\ timers = {}
    /\ backgroundTimer = FALSE
    /\ passes = {}
    /\ pendingInit = 0
    /\ counts = [inits |-> 0, calls |-> 0, fires |-> 0, stops |-> 0, made |-> 0]
    /\ lastStep = NoStep

vars == <<strategyStatus, investorStates, platformTotalFees, now, frames, nextId,
          lastResponse, lastCall, audit, serial, managerVars>>
\* The stores of the server and its history.
serverVars == <<strategyStatus, investorStates, platformTotalFees, now, frames, nextId,
                lastResponse, lastCall, audit, serial>>

\* new Date(0)
Epoch == 0
\* The clock when the process starts: some time after the epoch.
StartTime == Epoch + 1

NoAccount ==
    [strategyId |-> Undefined, balance |-> Zero, allocation |-> "NONE", lastDecisionAt |-> -1]

\* The object a first deposit starts from (lines 193-198).
FreshAccount(strategyId) ==
    [strategyId |-> strategyId, balance |-> Zero, allocation |-> "STABLE",
     lastDecisionAt |-> Epoch]

\* investorStates.get(investor), NoAccount standing for undefined.
Lookup(states, investor) ==
    IF investor \in DOMAIN states THEN states[investor] ELSE NoAccount

\* MapSet that builds a new Map holding the one entry.
MapSet_Replaces(states, key, value) == [k \in {key} |-> value]

\* MapSet that stores the account under every key of the Map.
MapSet_WritesAll(states, key, value) == [k \in DOMAIN states \cup {key} |-> value]

\* investorStates.set(investor, account)
MapSet(states, key, value) ==
    [k \in DOMAIN states \cup {key} |-> IF k = key THEN value ELSE states[k]]

NoData ==
    [investor |-> Undefined, strategyId |-> Undefined, asset |-> Undefined,
     newBalance |-> Zero, allocation |-> "NONE", feeCharged |-> Zero,
     platformTotalFees |-> Zero, simulated |-> FALSE, decidedAt |-> -1]

Response(status, error, message, data) ==
    [status |-> status, error |-> error, message |-> message, data |-> data]

NoResponse == Response(0, "", "", NoData)

NoBody == Body(Undefined, Undefined, AmountMissing, Undefined)

NoCall ==
    [id |-> 0, kind |-> "none", outcome |-> "none", body |-> NoBody,
     key |-> Undefined, pre |-> NoAccount, preTotal |-> Zero, postAdd |-> Zero,
     decision |-> "NONE", calls |-> 0,
     fee |-> Zero, serialData |-> NoData, preStatus |-> "NONE"]

Init ==
    /\ strategyStatus = [id \in {} |-> "ACTIVE"]
    /\ investorStates = [i \in {} |-> NoAccount]
    /\ platformTotalFees = Zero
    /\ now = StartTime
    /\ frames = {}
    /\ nextId = 1
    /\ lastResponse = NoResponse
    /\ lastCall = NoCall
    /\ audit = [deposited |-> [i \in Investors |-> Zero],
                fees |-> [i \in Investors |-> Zero],
                allFees |-> Zero]
    /\ serial = [accounts |-> [i \in {} |-> NoAccount], total |-> Zero]
    /\ ManagerInit

\* ------------------------------------------------- the deposit handler
\* decideAllocation (lines 169-173): signal = Math.random() - 0.5 is
\* negative, zero or positive.
Signals == {-1, 0, 1}
DecideAllocation(signal) == IF signal > 0 THEN "INVESTED" ELSE "STABLE"

\* x lies exactly halfway between two multiples of 10^-8.
IsTie8(x) == x.k = "fin" /\ 2 * (x.f % UnitTicks) = UnitTicks
\* balance * feeRate lies exactly halfway between two multiples of 10^-8.
IsFeeTie(balance) == balance.k = "fin" /\ 2 * (balance.f % FeeDivisor) = FeeDivisor

\* The outcomes of the three roundings of one deposit, should they tie.
TieChoices == [fee : BOOLEAN, balance : BOOLEAN, total : BOOLEAN]

\* The choices that matter for a switch on `balance` with platform total
\* `total`: a rounding that does not tie has one outcome, listed as FALSE.
LiveTieChoices(balance, total) ==
    {ups \in TieChoices :
        LET fee == FeeOnSwitch(balance, ups.fee)
        IN  /\ ups.fee => IsFeeTie(balance)
            /\ ups.balance => IsTie8(NumSub(balance, fee))
            /\ ups.total => IsTie8(NumAdd(total, fee))}

\* AccumulateFee with `=` written for the read-modify-write.
AccumulateFee_Overwrites(total, fee, up) == ToFixed8(fee, up)

\* platformTotalFees = Number((platformTotalFees + feeCharged).toFixed(8))
\* (line 210).
AccumulateFee(total, fee, up) == ToFixed8(NumAdd(total, fee), up)

\* ChargeFee without the test of line 207: every deposit is charged.
ChargeFee_AlwaysCharges(balance, allocation, decision, total, ups) ==
    LET fee == FeeOnSwitch(balance, ups.fee)
    IN  [fee |-> fee,
         balance |-> ToFixed8(NumSub(balance, fee), ups.balance),
         total |-> ToFixed8(NumAdd(total, fee), ups.total)]

\* ChargeFee without line 209: the fee is reported but not deducted.
ChargeFee_KeepsBalance(balance, allocation, decision, total, ups) ==
    IF allocation # decision
    THEN LET fee == FeeOnSwitch(balance, ups.fee)
         IN  [fee |-> fee, balance |-> balance,
              total |-> ToFixed8(NumAdd(total, fee), ups.total)]
    ELSE [fee |-> Zero, balance |-> balance, total |-> total]

\* Lines 205-213 on the balance the amount was added to: the fee, the
\* balance left and the platform total.
ChargeFee(balance, allocation, decision, total, ups) ==
    IF allocation # decision
    THEN LET fee == FeeOnSwitch(balance, ups.fee)
         IN  [fee |-> fee,
              balance |-> ToFixed8(NumSub(balance, fee), ups.balance),
              total |-> AccumulateFee(total, fee, ups.total)]
    ELSE [fee |-> Zero, balance |-> balance, total |-> total]

\* ApplyDecision without line 217: the time of the decision is not stored.
ApplyDecision_KeepsTime(current, balance, decision, at, strategyId) ==
    [current EXCEPT !.balance = balance, !.allocation = decision,
                    !.strategyId = strategyId]

\* ApplyDecision without line 218: an account keeps its first strategy.
ApplyDecision_KeepsStrategy(current, balance, decision, at, strategyId) ==
    [current EXCEPT !.balance = balance, !.allocation = decision,
                    !.lastDecisionAt = at]

\* ApplyDecision without line 216: the decision is compared but not stored.
ApplyDecision_KeepsAllocation(current, balance, decision, at, strategyId) ==
    [current EXCEPT !.balance = balance, !.lastDecisionAt = at,
                    !.strategyId = strategyId]

\* ApplyDecision that leaves the allocation of a PAUSED strategy alone.
ApplyDecision_HoldsWhenPaused(current, balance, decision, at, strategyId) ==
    [current EXCEPT !.balance = balance,
                    !.allocation = IF strategyId \in DOMAIN strategyStatus
                                      /\ strategyStatus[strategyId] = "PAUSED"
                                   THEN @ ELSE decision,
                    !.lastDecisionAt = at, !.strategyId = strategyId]

\* Lines 215-218: the decision, the time and the strategy are stored in
\* `current`, whose balance lines 199-209 have left at `balance`.
ApplyDecision(current, balance, decision, at, strategyId) ==
    [current EXCEPT !.balance = balance, !.allocation = decision,
                    !.lastDecisionAt = at, !.strategyId = strategyId]

\* DepositData that reports the platform total read before line 210.
DepositData_TotalBeforeFee(body, account, fee, total) ==
    [investor |-> body.investor, strategyId |-> body.strategyId,
     asset |-> IF Falsy(body.asset) THEN "XLM" ELSE body.asset,
     newBalance |-> account.balance, allocation |-> account.allocation,
     feeCharged |-> fee, platformTotalFees |-> NumSub(total, fee), simulated |-> TRUE,
     decidedAt |-> account.lastDecisionAt]

\* data of the success response (lines 223-233).
DepositData(body, account, fee, total) ==
    [investor |-> body.investor, strategyId |-> body.strategyId,
     asset |-> IF Falsy(body.asset) THEN "XLM" ELSE body.asset,
     newBalance |-> account.balance, allocation |-> account.allocation,
     feeCharged |-> fee, platformTotalFees |-> total, simulated |-> TRUE,
     decidedAt |-> account.lastDecisionAt]

ValidationFailed ==
    Response(400, "Validation failed",
             "Fields investor, strategyId and positive amount are required", NoData)

DepositFailed ==
    Response(500, "Deposit failed", "Unexpected error during strategy deposit", NoData)

\* CanDispatch for a handler that awaits between lines 199 and 202: other
\* handlers start while an activation is suspended.
CanDispatch_Always == TRUE

\* The handler is a plain synchronous callback (line 176: no async, no
\* await up to line 244): the event loop starts no other handler while an
\* activation is between its first and its last statement.
CanDispatch == frames = {}

\* The object `current` names: the stored account itself when the investor
\* had one (line 193 returns the Map's own object), else the local one.
Current(fr) == IF fr.aliased THEN investorStates[fr.body.investor] ELSE fr.current

Called(kind, outcome, body, key) ==
    [NoCall EXCEPT !.id = nextId, !.kind = kind, !.outcome = outcome, !.body = body,
                   !.key = key,
                   !.preStatus = IF key \in DOMAIN strategyStatus
                                 THEN strategyStatus[key] ELSE "NONE"]

\* Lines 177-190: the body fails the check of line 183.
RejectDeposit(body) ==
    /\ CanDispatch
    /\ nextId <= MaxRequests
    /\ ~ValidDeposit(body)
    /\ lastResponse' = ValidationFailed
    /\ lastCall' = [Called("deposit", "rejected", body, body.investor)
                      EXCEPT !.pre = Lookup(investorStates, body.investor),
                             !.preTotal = platformTotalFees]
    /\ nextId' = nextId + 1
    /\ UNCHANGED <<managerVars, strategyStatus, investorStates, platformTotalFees, now, frames,
                   audit, serial>>

\* Lines 177-199: the body passes, `current` is found or made, and the
\* amount is added to its balance.
BeginDeposit(body) ==
    /\ CanDispatch
    /\ nextId <= MaxRequests
    /\ ValidDeposit(body)
    /\ LET investor == body.investor
           amount == ToNumber(body.amount)
           aliased == investor \in DOMAIN investorStates
           fresh == FreshAccount(body.strategyId)
       IN  /\ frames' = frames \cup
                 {[id |-> nextId, body |-> body, amount |-> amount, aliased |-> aliased,
                   current |-> IF aliased THEN NoAccount
                               ELSE [fresh EXCEPT !.balance = NumAdd(@, amount)],
                   pre |-> Lookup(investorStates, investor),
                   preTotal |-> platformTotalFees]}
           /\ investorStates' =
                 IF aliased
                 THEN [investorStates EXCEPT ![investor].balance = NumAdd(@, amount)]
                 ELSE investorStates
    /\ nextId' = nextId + 1
    /\ UNCHANGED <<managerVars, strategyStatus, platformTotalFees, now, lastResponse, lastCall,
                   audit, serial>>

\* One deposit run alone on `ledger` = [accounts, total]: lines 193-219.
SerialDeposit(ledger, body, decision, at, ups) ==
    LET investor == body.investor
        start == IF investor \in DOMAIN ledger.accounts THEN ledger.accounts[investor]
                 ELSE FreshAccount(body.strategyId)
        added == NumAdd(start.balance, ToNumber(body.amount))
        charged == ChargeFee(added, start.allocation, decision, ledger.total, ups)
        account == ApplyDecision(start, charged.balance, decision, at, body.strategyId)
    IN  [accounts |-> MapSet(ledger.accounts, investor, account),
         total |-> charged.total,
         data |-> DepositData(body, account, charged.fee, charged.total)]

\* CompleteDeposit that treats a USDC deposit as no switch (no fee).
CompleteDeposit_WaivesFeeForUSDC(fr) ==
    \E signal \in Signals,
       ups \in LiveTieChoices(Current(fr).balance, platformTotalFees) :
        LET investor == fr.body.investor
            decision == DecideAllocation(signal)
            at == now
            cur == Current(fr)
            charged == ChargeFee(cur.balance,
                                 IF fr.body.asset = "USDC" THEN decision
                                 ELSE cur.allocation,
                                 decision, platformTotalFees, ups)
            account == ApplyDecision(cur, charged.balance, decision, at,
                                     fr.body.strategyId)
            alone == SerialDeposit(serial, fr.body, decision, at, ups)
        IN  /\ investorStates' = MapSet(investorStates, investor, account)
            /\ platformTotalFees' = charged.total
            /\ frames' = frames \ {fr}
            /\ lastResponse' =
                  Response(200, "", "",
                           DepositData(fr.body, account, charged.fee, charged.total))
            /\ lastCall' = [Called("deposit", "ok", fr.body, investor)
                              EXCEPT !.id = fr.id, !.pre = fr.pre,
                                     !.preTotal = fr.preTotal,
                                     !.postAdd = cur.balance, !.decision = decision,
                                     !.calls = 1,
                                     !.fee = charged.fee, !.serialData = alone.data]
            /\ audit' = [deposited |-> [audit.deposited EXCEPT
                                          ![investor] = NumAdd(@, fr.amount)],
                         fees |-> [audit.fees EXCEPT
                                          ![investor] = NumAdd(@, charged.fee)],
                         allFees |-> NumAdd(audit.allFees, charged.fee)]
            /\ serial' = [accounts |-> alone.accounts, total |-> alone.total]
            /\ UNCHANGED <<managerVars, strategyStatus, now, nextId>>

\* Lines 201-235 of an activation that has begun: decide, charge, apply,
\* store, respond.
CompleteDeposit(fr) ==
    \E signal \in Signals,
       ups \in LiveTieChoices(Current(fr).balance, platformTotalFees) :
        LET investor == fr.body.investor
            decision == DecideAllocation(signal)
            at == now
            cur == Current(fr)
            charged == ChargeFee(cur.balance, cur.allocation, decision,
                                 platformTotalFees, ups)
            account == ApplyDecision(cur, charged.balance, decision, at,
                                     fr.body.strategyId)
            alone == SerialDeposit(serial, fr.body, decision, at, ups)
        IN  /\ investorStates' = MapSet(investorStates, investor, account)
            /\ platformTotalFees' = charged.total
            /\ frames' = frames \ {fr}
            /\ lastResponse' =
                  Response(200, "", "",
                           DepositData(fr.body, account, charged.fee, charged.total))
            /\ lastCall' = [Called("deposit", "ok", fr.body, investor)
                              EXCEPT !.id = fr.id, !.pre = fr.pre,
                                     !.preTotal = fr.preTotal,
                                     !.postAdd = cur.balance, !.decision = decision,
                                     !.calls = 1,
                                     !.fee = charged.fee, !.serialData = alone.data]
            /\ audit' = [deposited |-> [audit.deposited EXCEPT
                                          ![investor] = NumAdd(@, fr.amount)],
                         fees |-> [audit.fees EXCEPT
                                          ![investor] = NumAdd(@, charged.fee)],
                         allFees |-> NumAdd(audit.allFees, charged.fee)]
            /\ serial' = [accounts |-> alone.accounts, total |-> alone.total]
            /\ UNCHANGED <<managerVars, strategyStatus, now, nextId>>

\* ------------------------------------------ the pause / resume handlers
StrategyIdInputs == {Undefined, ""} \cup StrategyIds

\* PauseStrategy with `id === undefined` written for `!id`.
PauseStrategy_AcceptsEmpty(id) ==
    /\ frames = {}
    /\ nextId <= MaxRequests
    /\ IF id = Undefined
       THEN /\ lastResponse' = Response(400, "Validation failed", "Strategy ID is required", NoData)
            /\ lastCall' = Called("pause", "rejected", NoBody, id)
            /\ UNCHANGED strategyStatus
       ELSE /\ strategyStatus' = MapSet(strategyStatus, id, "PAUSED")
            /\ lastResponse' = Response(200, "", "paused successfully", NoData)
            /\ lastCall' = Called("pause", "ok", NoBody, id)
    /\ nextId' = nextId + 1
    /\ UNCHANGED <<managerVars, investorStates, platformTotalFees, now, frames, audit, serial>>

\* PauseStrategy that toggles the status instead of setting it.
PauseStrategy_Toggles(id) ==
    /\ frames = {}
    /\ nextId <= MaxRequests
    /\ IF Falsy(id)
       THEN /\ lastResponse' = Response(400, "Validation failed", "Strategy ID is required", NoData)
            /\ lastCall' = Called("pause", "rejected", NoBody, id)
            /\ UNCHANGED strategyStatus
       ELSE /\ strategyStatus' =
                 MapSet(strategyStatus, id,
                        IF id \in DOMAIN strategyStatus /\ strategyStatus[id] = "PAUSED"
                        THEN "ACTIVE" ELSE "PAUSED")
            /\ lastResponse' = Response(200, "", "paused successfully", NoData)
            /\ lastCall' = Called("pause", "ok", NoBody, id)
    /\ nextId' = nextId + 1
    /\ UNCHANGED <<managerVars, investorStates, platformTotalFees, now, frames, audit, serial>>

\* Lines 286-297.
PauseStrategy(id) ==
    /\ CanDispatch
    /\ nextId <= MaxRequests
    /\ IF Falsy(id)
       THEN /\ lastResponse' = Response(400, "Validation failed", "Strategy ID is required", NoData)
            /\ lastCall' = Called("pause", "rejected", NoBody, id)
            /\ UNCHANGED strategyStatus
       ELSE /\ strategyStatus' = MapSet(strategyStatus, id, "PAUSED")
            /\ lastResponse' = Response(200, "", "paused successfully", NoData)
            /\ lastCall' = Called("pause", "ok", NoBody, id)
    /\ nextId' = nextId + 1
    /\ UNCHANGED <<managerVars, investorStates, platformTotalFees, now, frames, audit, serial>>

\* ResumeStrategy that also restarts the platform's fee count.
ResumeStrategy_ResetsFees(id) ==
    /\ frames = {}
    /\ nextId <= MaxRequests
    /\ IF Falsy(id)
       THEN /\ lastResponse' = Response(400, "Validation failed", "Strategy ID is required", NoData)
            /\ lastCall' = Called("resume", "rejected", NoBody, id)
            /\ UNCHANGED <<strategyStatus, platformTotalFees>>
       ELSE /\ strategyStatus' = MapSet(strategyStatus, id, "ACTIVE")
            /\ platformTotalFees' = Zero
            /\ lastResponse' = Response(200, "", "resumed successfully", NoData)
            /\ lastCall' = Called("resume", "ok", NoBody, id)
    /\ nextId' = nextId + 1
    /\ UNCHANGED <<managerVars, investorStates, now, frames, audit, serial>>

\* Lines 299-310.
ResumeStrategy(id) ==
    /\ CanDispatch
    /\ nextId <= MaxRequests
    /\ IF Falsy(id)
       THEN /\ lastResponse' = Response(400, "Validation failed", "Strategy ID is required", NoData)
            /\ lastCall' = Called("resume", "rejected", NoBody, id)
            /\ UNCHANGED strategyStatus
       ELSE /\ strategyStatus' = MapSet(strategyStatus, id, "ACTIVE")
            /\ lastResponse' = Response(200, "", "resumed successfully", NoData)
            /\ lastCall' = Called("resume", "ok", NoBody, id)
    /\ nextId' = nextId + 1
    /\ UNCHANGED <<managerVars, investorStates, platformTotalFees, now, frames, audit, serial>>

\* --------------------------------------------- the read-only handlers
\* strategyStatus.get(id) || 'ACTIVE' (line 254).
StatusOf(id) ==
    IF id \in DOMAIN strategyStatus THEN strategyStatus[id] ELSE "ACTIVE"

\* GetStrategies with the status written out like the rest of the listing.
GetStrategies_ReportsActive ==
    /\ frames = {}
    /\ nextId <= MaxRequests
    /\ lastResponse' = Response(200, "", "", [id |-> GridStrategy, status |-> "ACTIVE"])
    /\ lastCall' = Called("strategies", "ok", NoBody, GridStrategy)
    /\ nextId' = nextId + 1
    /\ UNCHANGED <<managerVars, strategyStatus, investorStates, platformTotalFees, now, frames,
                   audit, serial>>

\* GET /api/strategies (lines 246-283): the listed strategy and its status.
GetStrategies ==
    /\ CanDispatch
    /\ nextId <= MaxRequests
    /\ lastResponse' = Response(200, "", "",
                                [id |-> GridStrategy, status |-> StatusOf(GridStrategy)])
    /\ lastCall' = Called("strategies", "ok", NoBody, GridStrategy)
    /\ nextId' = nextId + 1
    /\ UNCHANGED <<managerVars, strategyStatus, investorStates, platformTotalFees, now, frames,
                   audit, serial>>

\* The routes that answer from constants and Math.random(): /health,
\* /metrics, /api/ai/*, /api/soroswap/*, /api/market/prices, / (lines 45-166,
\* 312-351), and the 404 of every other path (lines 354-361).
OtherRoutes == {"/health", "/api/soroswap/quote", "/unknown"}
OtherRequest(route) ==
    /\ CanDispatch
    /\ nextId <= MaxRequests
    /\ lastResponse' = IF route = "/unknown"
                       THEN Response(404, "Not Found", "Route not found", NoData)
                       ELSE Response(200, "", "", NoData)
    /\ lastCall' = Called("other", "ok", NoBody, route)
    /\ nextId' = nextId + 1
    /\ UNCHANGED <<managerVars, strategyStatus, investorStates, platformTotalFees, now, frames,
                   audit, serial>>

\* ------------------------------------------------------ specifications
Next ==
    \/ \E body \in LedgerBodies : RejectDeposit(body)
    \/ \E body \in LedgerBodies : BeginDeposit(body)
    \/ \E fr \in frames : CompleteDeposit(fr)
    \/ \E id \in StrategyIdInputs : PauseStrategy(id)
    \/ \E id \in StrategyIdInputs : ResumeStrategy(id)

Spec == Init /\ [][Next]_vars

\* Time passes between two handlers.
Tick ==
    /\ CanDispatch
    /\ now < StartTime + MaxClock
    /\ now' = now + 1
    /\ UNCHANGED <<managerVars, strategyStatus, investorStates, platformTotalFees, frames, nextId,
                   lastResponse, lastCall, audit, serial>>

\* The deposits of the clock runs: one amount per investor, and a rejected one.
ClockBodies ==
    {Body(i, "s1", AmountNumber(Fin(500, 0)), Undefined) : i \in Investors}
    \cup {Body("inv1", "s1", AmountNumber(Zero), Undefined)}

\* The ledger with the clock running.
NextClock ==
    \/ \E body \in ClockBodies : RejectDeposit(body)
    \/ \E body \in ClockBodies : BeginDeposit(body)
    \/ \E fr \in frames : CompleteDeposit(fr)
    \/ \E id \in StrategyIds : PauseStrategy(id)
    \/ \E id \in StrategyIds : ResumeStrategy(id)
    \/ Tick
SpecClock == Init /\ [][NextClock]_vars

\* The ledger with every route of the server.
NextApi ==
    \/ Next
    \/ GetStrategies
    \/ \E route \in OtherRoutes : OtherRequest(route)
SpecApi == Init /\ [][NextApi]_vars

\* --------------------------------------------- a fault inside the try
\* The statements of the try block (lines 177-235) that call out of the
\* handler after line 199: decideAllocation() (line 202), toFixed of the
\* platform total (line 210), res.json (line 221).
FaultPoints == {"decideAllocation", "accumulate", "respond"}

\* FailDeposit without the catch block: the handler sends no response.
FailDeposit_NoCatch(fr, point) ==
    /\ frames' = frames \ {fr}
    /\ lastResponse' = NoResponse
    /\ lastCall' = [Called("deposit", "failed", fr.body, fr.body.investor)
                      EXCEPT !.id = fr.id, !.pre = fr.pre,
                             !.preTotal = fr.preTotal, !.decision = point,
                             !.calls = 1]
    /\ UNCHANGED <<managerVars, strategyStatus, investorStates, platformTotalFees, now, nextId,
                   audit, serial>>

\* An activation that has begun throws at `point`; what it wrote before
\* stays written, and the catch block (lines 236-243) answers 500.
FailDeposit(fr, point) ==
    \E signal \in Signals,
       ups \in LiveTieChoices(Current(fr).balance, platformTotalFees) :
        LET investor == fr.body.investor
            decision == DecideAllocation(signal)
            cur == Current(fr)
            charged == ChargeFee(cur.balance, cur.allocation, decision,
                                 platformTotalFees, ups)
            account == ApplyDecision(cur, charged.balance, decision, now,
                                     fr.body.strategyId)
        IN  /\ CASE point = "decideAllocation" ->
                      UNCHANGED <<investorStates, platformTotalFees>>
                 [] point = "accumulate" ->
                      /\ cur.allocation # decision
                      /\ investorStates' =
                            IF fr.aliased
                            THEN [investorStates EXCEPT ![investor].balance = charged.balance]
                            ELSE investorStates
                      /\ UNCHANGED platformTotalFees
                 [] OTHER ->
                      /\ investorStates' = MapSet(investorStates, investor, account)
                      /\ platformTotalFees' = charged.total
            /\ frames' = frames \ {fr}
            /\ lastResponse' = DepositFailed
            /\ lastCall' = [Called("deposit", "failed", fr.body, investor)
                              EXCEPT !.id = fr.id, !.pre = fr.pre,
                                     !.preTotal = fr.preTotal, !.decision = point,
                                     !.calls = 1]
            /\ UNCHANGED <<managerVars, strategyStatus, now, nextId, audit, serial>>

\* The ledger when a statement of the try block can throw.
NextFault ==
    \/ Next
    \/ \E fr \in frames, point \in FaultPoints : FailDeposit(fr, point)

SpecFault == Init /\ [][NextFault]_vars

\* The requests of the boundary runs: a deposit that passes validation, one
\* that does not, and a pause or resume with and without an id.
BoundaryBodies ==
    {Body("inv1", "s1", AmountNumber(Fin(500, 0)), Undefined),
     Body("inv1", "s1", AmountNumber(Zero), Undefined)}
BoundaryIds == {Undefined, "s1"}

\* The three state-changing routes with faults: the runs that follow each
\* request from its receipt to its response.
NextBoundary ==
    \/ \E body \in BoundaryBodies : RejectDeposit(body)
    \/ \E body \in BoundaryBodies : BeginDeposit(body)
    \/ \E fr \in frames : CompleteDeposit(fr)
    \/ \E fr \in frames, point \in FaultPoints : FailDeposit(fr, point)
    \/ \E id \in BoundaryIds : PauseStrategy(id)
    \/ \E id \in BoundaryIds : ResumeStrategy(id)
SpecBoundary == Init /\ [][NextBoundary]_vars

\* ------------------------------------- StrategyManager (part_007 23-570)
\* initialize() calls in one run.
MaxInits == 2
\* Calls of createStrategy, startStrategy, stopStrategy, pauseStrategy, stop().
MaxCalls == 2
\* Times an interval fires in one run.
MaxFires == 2
\* Grid levels within gridSpacing of the price, at most.
MaxGridMatches == 3

\* maxInvestments of the example DCA strategy (line 139).
ExampleMaxInvestments == 24
\* A price strictly between the two lowest levels is within gridSpacing of
\* three of the levels of lines 314-318 (buy 0.10, sell 0.11, buy 0.11);
\* any other price in the range of more.
MinGridMatches == 3
GridMatches == MinGridMatches .. MaxGridMatches

\* The performance block of a new strategy (lines 109-121, 487-499).
NewPerformance(at) ==
    [totalTrades |-> 0, winningTrades |-> 0, losingTrades |-> 0,
     winRate |-> [num |-> 0, den |-> 1],
     totalProfit |-> Zero, totalLoss |-> Zero, netProfit |-> Zero,
     lastUpdate |-> at]

StrategyObject(id, type, status, maxInvestments, at) ==
    [id |-> id, type |-> type, status |-> status, maxInvestments |-> maxInvestments,
     performance |-> NewPerformance(at), updatedAt |-> at]

\* Lines 60-64: the three example strategies, all ACTIVE.
exampleStrategies(at) ==
    << StrategyObject("grid-strategy-1", "GRID", "ACTIVE", NoCap, at),
       StrategyObject("dca-strategy-1", "DCA", "ACTIVE", ExampleMaxInvestments, at),
       StrategyObject("momentum-strategy-1", "MOMENTUM", "ACTIVE", NoCap, at) >>

ExampleIds == {"grid-strategy-1", "dca-strategy-1", "momentum-strategy-1"}

\* What createStrategy is given: a DCA strategy that may invest once.
CreateInputs == {[type |-> "DCA", status |-> "ACTIVE", maxInvestments |-> 1]}
\* `strategy-${Date.now()}-${random}` (line 486): a new id at every call.
CreatedId(n) == IF n = 0 THEN "strategy-1" ELSE IF n = 1 THEN "strategy-2" ELSE "strategy-3"
\* The ids the callers name: the loaded ones, a created one, an unknown one.
ManagerIds == {"grid-strategy-1", "dca-strategy-1", "strategy-1", "no-such-strategy"}

\* The result of the awaited trade: it throws, or it gives the profit of
\* lines 465-467, (averagePrice - price) * filledQuantity, which is NaN
\* when parseFloat found no number in the response.
Profits == {Fin(1, 0), Negative(1, 0), NaN}
TradeResults == {[ok |-> FALSE, profit |-> Zero]} \cup {[ok |-> TRUE, profit |-> p] : p \in Profits}
\* The result of an awaited lookup (price, analysis, volume): it throws, it
\* makes the strategy return without a trade, or it lets the trade go on.
LookupResults == {"throws", "skip", "go"}

\* Math.abs
Abs(x) == IF x.k = "neg" THEN Fin(x.w, x.f) ELSE x

\* Map.set(id, ref): a new key goes to the end of the iteration order.
StrategiesSet(map, id, ref) ==
    [k \in DOMAIN map \cup {id} |-> IF k = id THEN ref ELSE map[k]]
OrderSet(keys, id) ==
    IF \E i \in 1..Len(keys) : keys[i] = id THEN keys ELSE Append(keys, id)

Step(op, id, outcome) == [NoStep EXCEPT !.op = op, !.id = id, !.outcome = outcome]

\* updateStrategyPerformance that counts the trade but neither a win nor a loss.
updateStrategyPerformance_SkipsOutcome(s, profit, at) ==
    [s EXCEPT !.performance.totalTrades = @ + 1, !.performance.lastUpdate = at]

\* Lines 458-480; order.status is 'FILLED' since line 438.
updateStrategyPerformance(s, profit, at) ==
    LET p == s.performance
        win == NumLt(Zero, profit)
        total == p.totalTrades + 1
        winning == IF win THEN p.winningTrades + 1 ELSE p.winningTrades
        losing == IF win THEN p.losingTrades ELSE p.losingTrades + 1
        totalProfit == IF win THEN NumAdd(p.totalProfit, profit) ELSE p.totalProfit
        totalLoss == IF win THEN p.totalLoss ELSE NumAdd(p.totalLoss, Abs(profit))
    IN  [s EXCEPT !.performance =
            [totalTrades |-> total, winningTrades |-> winning, losingTrades |-> losing,
             winRate |-> [num |-> winning, den |-> total],
             totalProfit |-> totalProfit, totalLoss |-> totalLoss,
             netProfit |-> NumSub(totalProfit, totalLoss),
             lastUpdate |-> at]]

\* ---- initialize / stop (lines 37-52, 227-238, 561-569)
\* Lines 38-42: loadStrategies runs to its end (it has no await), storing
\* three new objects under the example ids; initialize then waits at line 42.
initialize ==
    /\ counts.inits < MaxInits
    /\ LET loaded == exampleStrategies(now)
           base == Len(heap)
       IN  /\ heap' = heap \o loaded
           /\ strategies' = StrategiesSet(StrategiesSet(StrategiesSet(strategies,
                                loaded[1].id, base + 1), loaded[2].id, base + 2),
                                loaded[3].id, base + 3)
           /\ order' = OrderSet(OrderSet(OrderSet(order, loaded[1].id), loaded[2].id),
                                loaded[3].id)
    /\ pendingInit' = pendingInit + 1
    /\ counts' = [counts EXCEPT !.inits = @ + 1]
    /\ lastStep' = Step("initialize", Undefined, "ok")
    /\ UNCHANGED <<serverVars, isRunning, monitorInterval, timers, backgroundTimer, passes>>

\* Lines 227-238.
startMonitoring ==
    IF isRunning
    THEN UNCHANGED <<isRunning, monitorInterval, timers, counts>>
    ELSE /\ isRunning' = TRUE
         /\ monitorInterval' = counts.made + 1
         /\ timers' = timers \cup {counts.made + 1}
         /\ counts' = [counts EXCEPT !.made = @ + 1]

\* Lines 44-47: the activation waiting at line 42 goes on.
initializeResumes ==
    /\ pendingInit > 0
    /\ pendingInit' = pendingInit - 1
    /\ startMonitoring
    /\ lastStep' = Step("startMonitoring", Undefined, "ok")
    /\ UNCHANGED <<serverVars, strategies, order, heap, backgroundTimer, passes>>

\* Lines 561-569.
stop ==
    /\ counts.calls < MaxCalls
    /\ timers' = IF monitorInterval # NoTimer THEN timers \ {monitorInterval} ELSE timers
    /\ monitorInterval' = NoTimer
    /\ isRunning' = FALSE
    /\ counts' = [counts EXCEPT !.calls = @ + 1, !.stops = @ + 1]
    /\ lastStep' = Step("stop", Undefined, "ok")
    /\ UNCHANGED <<serverVars, strategies, order, heap, backgroundTimer, passes, pendingInit>>

\* index.ts 355-362: the application starts its own monitoring interval.
startBackgroundServices ==
    /\ ~backgroundTimer
    /\ backgroundTimer' = TRUE
    /\ lastStep' = Step("startBackgroundServices", Undefined, "ok")
    /\ UNCHANGED <<serverVars, strategies, order, heap, isRunning, monitorInterval, timers,
                   passes, pendingInit, counts>>

\* ---- createStrategy, startStrategy, stopStrategy, pauseStrategy (482-559)
createStrategy(input) ==
    /\ counts.calls < MaxCalls
    /\ LET created == {i \in 1..Len(order) : order[i] \notin ExampleIds}
           id == CreatedId(Cardinality(created))
       IN  /\ heap' = Append(heap, StrategyObject(id, input.type, input.status,
                                                  input.maxInvestments, now))
           /\ strategies' = StrategiesSet(strategies, id, Len(heap) + 1)
           /\ order' = OrderSet(order, id)
           /\ lastStep' = [Step("createStrategy", id, "ok") EXCEPT !.ref = Len(heap) + 1]
    /\ counts' = [counts EXCEPT !.calls = @ + 1]
    /\ UNCHANGED <<serverVars, isRunning, monitorInterval, timers, backgroundTimer, passes,
                   pendingInit>>

\* The three methods of lines 522-559 differ in the status they store.
\* This one stores it only in a strategy that is ACTIVE.
SetStatus_OnlyWhenActive(op, id, status) ==
    /\ counts.calls < MaxCalls
    /\ counts' = [counts EXCEPT !.calls = @ + 1]
    /\ IF id \in DOMAIN strategies /\ heap[strategies[id]].status = "ACTIVE"
       THEN /\ heap' = [heap EXCEPT ![strategies[id]].status = status,
                                    ![strategies[id]].updatedAt = now]
            /\ lastStep' = [Step(op, id, "ok") EXCEPT
                               !.ref = strategies[id], !.updates = 1,
                               !.prior = heap[strategies[id]].status]
       ELSE /\ heap' = heap
            /\ lastStep' = Step(op, id, IF id \in DOMAIN strategies THEN "ok"
                                        ELSE "Strategy not found")
    /\ UNCHANGED <<serverVars, strategies, order, isRunning, monitorInterval, timers,
                   backgroundTimer, passes, pendingInit>>

SetStatus(op, id, status) ==
    /\ counts.calls < MaxCalls
    /\ counts' = [counts EXCEPT !.calls = @ + 1]
    /\ IF id \in DOMAIN strategies
       THEN /\ heap' = [heap EXCEPT ![strategies[id]].status = status,
                                    ![strategies[id]].updatedAt = now]
            /\ lastStep' = [Step(op, id, "ok") EXCEPT
                               !.ref = strategies[id], !.updates = 1,
                               !.prior = heap[strategies[id]].status]
       ELSE /\ heap' = heap
            /\ lastStep' = Step(op, id, "Strategy not found")
    /\ UNCHANGED <<serverVars, strategies, order, isRunning, monitorInterval, timers,
                   backgroundTimer, passes, pendingInit>>

startStrategy(id) == SetStatus("startStrategy", id, "ACTIVE")
stopStrategy(id) == SetStatus("stopStrategy", id, "STOPPED")
pauseStrategy(id) == SetStatus("pauseStrategy", id, "PAUSED")

\* ---- the monitor pass (lines 240-456)
\* The first await of executeStrategy's branch for the type (278, 326, 357).
FirstStage(type) == IF type = "MOMENTUM" THEN "analysis" ELSE "price"

\* The position of the first ACTIVE strategy at or after `from`, 0 if none:
\* the loop of lines 242-246 passes the others without waiting.
RECURSIVE NextActive(_)
NextActive(from) ==
    IF from > Len(order) THEN 0
    ELSE IF heap[strategies[order[from]]].status = "ACTIVE" THEN from
    ELSE NextActive(from + 1)

\* The pass goes on from position `from`: it is suspended in the next
\* ACTIVE strategy's first await, or it has ended.
Continue(pass, from) ==
    LET j == NextActive(from)
    IN  IF j = 0 THEN {}
        ELSE {[pass EXCEPT !.idx = j, !.ref = strategies[order[j]],
                           !.stage = FirstStage(heap[strategies[order[j]]].type),
                           !.left = 0]}

\* A timer's callback calls monitorStrategies (lines 231-237, index.ts 356-362).
StartPass(source) ==
    /\ pendingInit = 0
    /\ counts.fires < MaxFires
    /\ counts' = [counts EXCEPT !.fires = @ + 1]
    /\ passes' = passes \cup Continue([id |-> counts.fires + 1, source |-> source, idx |-> 0,
                                       ref |-> NoRef, stage |-> "loop", left |-> 0], 1)
    /\ lastStep' = [Step(source, Undefined, "ok") EXCEPT !.pass = counts.fires + 1]
    /\ UNCHANGED <<serverVars, strategies, order, heap, isRunning, monitorInterval, timers,
                   backgroundTimer, pendingInit>>

monitorTimerFires == \E t \in timers : StartPass("monitorInterval")
backgroundTimerFires == backgroundTimer /\ StartPass("backgroundTimer")

\* Lines 334-336: the DCA strategy has made its investments.
CapReached(s) == s.type = "DCA" /\ s.performance.totalTrades >= s.maxInvestments

\* The awaited lookup of a suspended pass returns (lines 278, 326, 357, 365).
\* "go" on a price or a volume reaches line 435: the trade is sent.
lookupReturns(pass, result, matches) ==
    /\ pendingInit = 0
    /\ pass.stage \in {"price", "analysis", "volume"}
    /\ LET s == heap[pass.ref]
           trades == result = "go" /\ pass.stage # "analysis" /\ ~CapReached(s)
       IN  /\ passes' = (passes \ {pass}) \cup
                 (IF result = "go" /\ pass.stage = "analysis"
                  THEN {[pass EXCEPT !.stage = "volume"]}
                  ELSE IF trades
                  THEN {[pass EXCEPT !.stage = "trade",
                                     !.left = IF s.type = "GRID" THEN matches ELSE 1]}
                  ELSE Continue(pass, pass.idx + 1))
           /\ lastStep' = [Step("lookup", s.id, result) EXCEPT
                              !.ref = pass.ref, !.pass = pass.id,
                              !.tradeStatus = IF trades THEN s.status ELSE "NONE"]
    /\ UNCHANGED <<serverVars, strategies, order, heap, isRunning, monitorInterval, timers,
                   backgroundTimer, pendingInit, counts>>

\* tradeReturns whose throw is caught nowhere below monitorStrategies: the
\* catch of line 247 ends the pass.
tradeReturns_ThrowEndsPass(pass, result) ==
    /\ pendingInit = 0
    /\ pass.stage = "trade"
    /\ LET s == heap[pass.ref]
           more == result.ok /\ pass.left > 1
       IN  /\ heap' = IF result.ok
                      THEN [heap EXCEPT ![pass.ref] =
                               updateStrategyPerformance(s, result.profit, now)]
                      ELSE heap
           /\ passes' = (passes \ {pass}) \cup
                 (IF more THEN {[pass EXCEPT !.left = @ - 1]}
                  ELSE IF result.ok THEN Continue(pass, pass.idx + 1)
                  ELSE {})
           /\ lastStep' = [Step("trade", s.id, IF result.ok THEN "ok" ELSE "throws") EXCEPT
                              !.ref = pass.ref, !.pass = pass.id,
                              !.signals = IF result.ok THEN 1 ELSE 0,
                              !.updates = IF result.ok THEN 1 ELSE 0,
                              !.tradeStatus = IF more THEN s.status ELSE "NONE"]
    /\ UNCHANGED <<serverVars, strategies, order, isRunning, monitorInterval, timers,
                   backgroundTimer, pendingInit, counts>>

\* The awaited soroswapService.executeTrade returns (lines 435-455).  A
\* throw leaves the strategy (catch of lines 305, 349, 372); a result
\* updates the counters and emits both events, and a grid strategy sends
\* the trade of its next level.
tradeReturns(pass, result) ==
    /\ pendingInit = 0
    /\ pass.stage = "trade"
    /\ LET s == heap[pass.ref]
           more == result.ok /\ pass.left > 1
       IN  /\ heap' = IF result.ok
                      THEN [heap EXCEPT ![pass.ref] =
                               updateStrategyPerformance(s, result.profit, now)]
                      ELSE heap
           /\ passes' = (passes \ {pass}) \cup
                 (IF more THEN {[pass EXCEPT !.left = @ - 1]}
                  ELSE Continue(pass, pass.idx + 1))
           /\ lastStep' = [Step("trade", s.id, IF result.ok THEN "ok" ELSE "throws") EXCEPT
                              !.ref = pass.ref, !.pass = pass.id,
                              !.signals = IF result.ok THEN 1 ELSE 0,
                              !.updates = IF result.ok THEN 1 ELSE 0,
                              !.tradeStatus = IF more THEN s.status ELSE "NONE"]
    /\ UNCHANGED <<serverVars, strategies, order, isRunning, monitorInterval, timers,
                   backgroundTimer, pendingInit, counts>>

\* The strategy the callers pause and stop while a pass runs.
MonitorIds == {"dca-strategy-1"}

\* One monitor pass over the strategies loaded once: lookups and trades,
\* with strategies created, paused and stopped meanwhile.
NextMonitor ==
    \/ counts.inits = 0 /\ initialize
    \/ initializeResumes
    \/ startBackgroundServices
    \/ \E input \in CreateInputs : createStrategy(input)
    \/ \E id \in MonitorIds : stopStrategy(id)
    \/ \E id \in MonitorIds : pauseStrategy(id)
    \/ counts.fires = 0 /\ monitorTimerFires
    \/ counts.fires = 0 /\ backgroundTimerFires
    \/ \E pass \in passes, result \in LookupResults, matches \in GridMatches :
          lookupReturns(pass, result, matches)
    \/ \E pass \in passes, result \in TradeResults : tradeReturns(pass, result)
SpecMonitor == Init /\ [][NextMonitor]_vars

\* Passes of both timers that overlap, over the loaded strategies and the
\* created ones; a trade succeeds with a profit or throws.
NextOverlap ==
    \/ counts.inits = 0 /\ initialize
    \/ initializeResumes
    \/ startBackgroundServices
    \/ \E input \in CreateInputs : createStrategy(input)
    \/ monitorTimerFires
    \/ backgroundTimerFires
    \/ \E pass \in passes, result \in LookupResults, matches \in GridMatches :
          lookupReturns(pass, result, matches)
    \/ \E pass \in passes, result \in {r \in TradeResults : r.profit \in {Zero, Fin(1, 0)}} :
          tradeReturns(pass, result)
SpecOverlap == Init /\ [][NextOverlap]_vars

\* The manager's life cycle: initialize() and stop() in any order and
\* overlap, both timers, and passes whose lookups give no trade.
NextLifecycle ==
    \/ initialize
    \/ initializeResumes
    \/ stop
    \/ startBackgroundServices
    \/ monitorTimerFires
    \/ backgroundTimerFires
    \/ \E pass \in passes, result \in {"throws", "skip"}, matches \in GridMatches :
          lookupReturns(pass, result, matches)
SpecLifecycle == Init /\ [][NextLifecycle]_vars

\* The status methods on known and unknown ids.
NextControl ==
    \/ counts.inits = 0 /\ initialize
    \/ initializeResumes
    \/ \E input \in CreateInputs : createStrategy(input)
    \/ \E id \in ManagerIds : startStrategy(id)
    \/ \E id \in ManagerIds : stopStrategy(id)
    \/ \E id \in ManagerIds : pauseStrategy(id)
SpecControl == Init /\ [][NextControl]_vars

\* ================================================================ claims
\* No activation of the deposit handler is between its first and last line.
Quiescent == frames = {}
\* The last answered request is a deposit that succeeded (HTTP 200).
Accepted == lastCall.kind = "deposit" /\ lastCall.outcome = "ok"
\* The allocation that deposit was compared with: the stored one, or the
\* STABLE of a new account.
PriorAllocation ==
    IF lastCall.pre = NoAccount THEN "STABLE" ELSE lastCall.pre.allocation
\* The balance of that deposit once its amount was added.
BalanceAfterAdding == NumAdd(lastCall.pre.balance, ToNumber(lastCall.body.amount))
Switched == Accepted /\ lastCall.decision # PriorAllocation

\* C1: after any sequence of successful deposits to one investor the stored
\* balance equals the sum of the amounts minus the sum of the fees returned,
\* both taken to 8 decimals.
C1_BalanceConservation ==
    Quiescent =>
        \A i \in DOMAIN investorStates :
            ToFixed8(investorStates[i].balance, TRUE)
                = ToFixed8(NumSub(audit.deposited[i], audit.fees[i]), TRUE)

\* C2: a successful deposit returns fee 0 when the decision equals the
\* allocation held before it, and the 8-decimal rounding of 0.005 times the
\* balance after adding the amount when it differs.
C2_FeeOnlyOnSwitch ==
    Accepted =>
        IF lastCall.decision = PriorAllocation
        THEN lastResponse.data.feeCharged = Zero
        ELSE lastResponse.data.feeCharged
                \in {FeeOnSwitch(BalanceAfterAdding, up) : up \in BOOLEAN}

\* A deposit switched a stored INVESTED account back to STABLE and was
\* charged a fee.
C2_Witness ==
    /\ Switched
    /\ lastCall.pre.allocation = "INVESTED"
    /\ lastResponse.data.feeCharged # Zero

\* C3: every stored balance is >= 0, and the fee of a switching deposit is
\* <= the balance it is taken from.
C3_NonNegative ==
    /\ \A i \in DOMAIN investorStates : NumLe(Zero, investorStates[i].balance)
    /\ Switched => NumLe(lastCall.fee, lastCall.postAdd)

\* C4: platformTotalFees never decreases and always equals the sum of the
\* fees returned so far (it starts at 0).
C4_PlatformAccumulator ==
    [][ /\ NumLe(platformTotalFees, platformTotalFees')
        /\ platformTotalFees' = audit'.allFees ]_vars

\* A deposit body that is invalid once line 180 has read the amount with
\* Number(): investor or strategyId missing or empty, or an amount whose
\* numeric reading is not a finite number above 0.
ClaimInvalid(body) ==
    \/ body.investor \in {Undefined, ""}
    \/ body.strategyId \in {Undefined, ""}
    \/ ToNumber(body.amount).k # "fin"
    \/ ToNumber(body.amount) = Zero
\* This step receives a deposit request with that body.
ReceivesDeposit(body) ==
    /\ nextId' = nextId + 1
    /\ \/ \E fr \in frames' \ frames : fr.body = body
       \/ frames' = frames /\ lastCall'.kind = "deposit" /\ lastCall'.body = body

SentInvalid(body) ==
    \/ body.investor \in {Undefined, ""}
    \/ body.strategyId \in {Undefined, ""}
    \/ body.amount.t # "number"
    \/ body.amount.n.k # "fin"
    \/ body.amount.n = Zero

C6_NoPartialUpdate ==
    (Quiescent /\ lastCall.kind = "deposit" /\ lastCall.outcome = "failed") =>
        /\ lastResponse.status = 500
        /\ Lookup(investorStates, lastCall.key) = lastCall.pre
        /\ platformTotalFees = lastCall.preTotal

\* C7: inv1 has no record; 1000 decided INVESTED returns fee 5, balance 995,
\* INVESTED; then 500 decided INVESTED returns fee 0, balance 1495.
C7_ConcreteScenario ==
    /\ ( Accepted /\ lastCall.key = "inv1" /\ lastCall.pre = NoAccount
         /\ ToNumber(lastCall.body.amount) = Fin(1000, 0)
         /\ lastCall.decision = "INVESTED" )
       => /\ lastResponse.data.feeCharged = Fin(5, 0)
          /\ lastResponse.data.newBalance = Fin(995, 0)
          /\ lastResponse.data.allocation = "INVESTED"
          /\ Quiescent => investorStates["inv1"].balance = Fin(995, 0)
    /\ ( Accepted /\ lastCall.key = "inv1"
         /\ lastCall.pre.balance = Fin(995, 0) /\ lastCall.pre.allocation = "INVESTED"
         /\ audit.deposited["inv1"] = Fin(1500, 0)
         /\ ToNumber(lastCall.body.amount) = Fin(500, 0)
         /\ lastCall.decision = "INVESTED" )
       => /\ lastResponse.data.feeCharged = Zero
          /\ lastResponse.data.newBalance = Fin(1495, 0)
          /\ lastResponse.data.allocation = "INVESTED"

\* The second deposit of the scenario has been answered.
C7_Witness ==
    /\ Accepted /\ lastCall.key = "inv1"
    /\ lastCall.pre.balance = Fin(995, 0) /\ lastCall.pre.allocation = "INVESTED"
    /\ audit.deposited["inv1"] = Fin(1500, 0)
    /\ audit.fees["inv1"] = Fin(5, 0)
    /\ lastCall.decision = "INVESTED"
    /\ lastResponse.data.newBalance = Fin(1495, 0)

\* This step answers a successful pause / resume of strategy id.
Pauses(id) ==
    nextId' = nextId + 1 /\ lastCall'.kind = "pause" /\ lastCall'.outcome = "ok"
        /\ lastCall'.key = id
Resumes(id) ==
    nextId' = nextId + 1 /\ lastCall'.kind = "resume" /\ lastCall'.outcome = "ok"
        /\ lastCall'.key = id

\* C8: pausing leaves the id PAUSED, pausing an id that is already PAUSED
\* changes nothing in the status map, and resuming an id that was never set
\* stores ACTIVE for it.
C8_IdempotentPauseResume ==
    [][ \A id \in StrategyIds :
            /\ Pauses(id) =>
                  /\ id \in DOMAIN strategyStatus' /\ strategyStatus'[id] = "PAUSED"
                  /\ (id \in DOMAIN strategyStatus /\ strategyStatus[id] = "PAUSED")
                        => strategyStatus' = strategyStatus
            /\ (Resumes(id) /\ id \notin DOMAIN strategyStatus) =>
                  id \in DOMAIN strategyStatus' /\ strategyStatus'[id] = "ACTIVE" ]_vars

\* A pause was answered for an id that a pause had already left PAUSED.
C8_Witness ==
    /\ lastCall.kind = "pause" /\ lastCall.outcome = "ok"
    /\ lastCall.preStatus = "PAUSED"
    /\ strategyStatus[lastCall.key] = "PAUSED"

\* C9: once every deposit received has been answered, platformTotalFees is
\* the sum of the fees those deposits returned, whatever the order in which
\* the investors' requests were handled.
C9_NoLostFeeUpdates ==
    Quiescent => platformTotalFees = audit.allFees

\* Both investors have been charged a fee.
C9_Witness ==
    /\ Quiescent
    /\ audit.fees["inv1"] # Zero /\ audit.fees["inv2"] # Zero
    /\ platformTotalFees = NumAdd(audit.fees["inv1"], audit.fees["inv2"])

\* C10: at most one deposit is between its read and its write, and the
\* accounts, the platform total and every success response are those of
\* the deposits run one after the other in the order they completed.
C10_PerInvestorAtomicity ==
    /\ Cardinality(frames) <= 1
    /\ Quiescent =>
          /\ investorStates = serial.accounts
          /\ platformTotalFees = serial.total
    /\ Accepted => lastResponse.data = lastCall.serialData

\* A second deposit to the same investor has been answered with a fee.
C10_Witness ==
    /\ Quiescent /\ Switched
    /\ lastCall.pre # NoAccount
    /\ lastResponse.data.feeCharged # Zero
    /\ investorStates = serial.accounts

\* This step receives and answers a request that is not a deposit.
AnswersNonDeposit ==
    nextId' = nextId + 1 /\ lastCall'.id = nextId /\ lastCall'.kind # "deposit"

\* C11: pause, resume and every other request that is not a deposit leave
\* every investor account (balance, allocation, strategyId, lastDecisionAt)
\* and platformTotalFees unchanged.
C11_LedgerChangesOnlyByDeposit ==
    [][ AnswersNonDeposit =>
            /\ investorStates' = investorStates
            /\ platformTotalFees' = platformTotalFees ]_vars

\* A resume was answered while an account and collected fees existed.
C11_Witness ==
    /\ lastCall.kind = "resume" /\ lastCall.outcome = "ok"
    /\ "inv1" \in DOMAIN investorStates
    /\ platformTotalFees # Zero

\* This step answers a deposit request.
AnswersDeposit == lastCall'.kind = "deposit" /\ lastCall'.id # lastCall.id
\* The fee, balance and allocation the last accepted deposit returned are
\* those lines 199-216 give from the account it found, its amount and its
\* decision alone.
OutcomeFromLedgerOnly ==
    LET data == lastResponse.data
    IN  /\ data.allocation = lastCall.decision
        /\ IF lastCall.decision = PriorAllocation
           THEN data.feeCharged = Zero /\ data.newBalance = BalanceAfterAdding
           ELSE \E upFee, upBalance \in BOOLEAN :
                    /\ data.feeCharged = FeeOnSwitch(BalanceAfterAdding, upFee)
                    /\ data.newBalance =
                          ToFixed8(NumSub(BalanceAfterAdding, data.feeCharged), upBalance)

\* C12: no step of a deposit changes strategyStatus; a deposit is begun
\* only when its own fields are valid and rejected only when they are not;
\* and the fee, new balance and
\* allocation it returns depend on the ledger, the amount and the decision
\* only, whatever the status of the strategy it names (ACTIVE, PAUSED, or
\* not in the map).
C12_DepositsIgnoreStatus ==
    /\ [](Accepted => OutcomeFromLedgerOnly)
    /\ []((lastCall.kind = "deposit" /\ lastCall.outcome = "rejected") =>
             ClaimInvalid(lastCall.body))
    /\ [][ /\ (AnswersDeposit \/ frames' # frames) => strategyStatus' = strategyStatus
           /\ \A fr \in frames' \ frames : ~ClaimInvalid(fr.body) ]_vars

\* A deposit naming a PAUSED strategy was accepted, switched the allocation
\* and was charged.
C12_Witness ==
    /\ Switched
    /\ lastCall.body.strategyId \in DOMAIN strategyStatus
    /\ strategyStatus[lastCall.body.strategyId] = "PAUSED"
    /\ lastResponse.data.feeCharged # Zero

\* A valid deposit for investor i has been processed to its end.
Processed(i) == audit.deposited[i] # Zero

\* C13: no account exists at the start; after every step an investor has an
\* account exactly when a valid deposit for that investor has been
\* processed; and no step removes an account.
C13_LazyCreationAndPermanence ==
    /\ DOMAIN investorStates = {}
    /\ [][ /\ DOMAIN investorStates \subseteq DOMAIN investorStates'
           /\ DOMAIN investorStates' \subseteq Investors
           /\ \A i \in Investors : (i \in DOMAIN investorStates') <=> Processed(i)' ]_vars

\* Both investors hold an account, and a pause has been answered since.
C13_Witness ==
    /\ DOMAIN investorStates = Investors
    /\ lastCall.kind = "pause" /\ lastCall.outcome = "ok"

\* C14: the first valid deposit of amount a for a new investor is judged
\* against balance 0 and allocation STABLE: decided STABLE it returns fee 0
\* and newBalance a; decided INVESTED it returns fee round(a * 0.005, 8) and
\* newBalance a - fee.
C14_InitialAccountState ==
    (Accepted /\ lastCall.pre = NoAccount) =>
        LET a == ToNumber(lastCall.body.amount)
            data == lastResponse.data
        IN  IF lastCall.decision = "STABLE"
            THEN data.feeCharged = Zero /\ data.newBalance = a
            ELSE /\ data.feeCharged \in {FeeOnSwitch(a, up) : up \in BOOLEAN}
                 /\ data.newBalance = NumSub(a, data.feeCharged)

\* C15: a successful deposit calls decideAllocation once; that one result
\* decides the fee by comparison with the allocation held before (no fee
\* when equal, the switch fee when different) and is the allocation stored
\* and returned; a rejected deposit does not call it.
C15_DecisionAppliedOnce ==
    /\ Accepted =>
          /\ lastCall.calls = 1
          /\ lastCall.decision \in Allocations
          /\ (lastCall.decision = PriorAllocation) => lastCall.fee = Zero
          /\ (lastCall.decision # PriorAllocation) =>
                 lastCall.fee \in {FeeOnSwitch(lastCall.postAdd, up) : up \in BOOLEAN}
          /\ lastResponse.data.allocation = lastCall.decision
          /\ Quiescent => investorStates[lastCall.key].allocation = lastCall.decision
    /\ (lastCall.kind = "deposit" /\ lastCall.outcome = "rejected") =>
          lastCall.calls = 0 /\ lastCall.decision = "NONE"

\* An INVESTED account was decided STABLE by one call, and STABLE is stored.
C15_Witness ==
    /\ Accepted /\ Quiescent
    /\ lastCall.calls = 1
    /\ lastCall.pre.allocation = "INVESTED" /\ lastCall.decision = "STABLE"
    /\ investorStates[lastCall.key].allocation = "STABLE"

\* C16: after every successful deposit the account's strategyId is the
\* strategyId of that deposit, whatever it was before, and a deposit whose
\* decision equals the prior allocation is charged no fee even when it
\* changes the strategyId.
C16_StrategyIdLastWriteWins ==
    Accepted =>
        /\ lastResponse.data.strategyId = lastCall.body.strategyId
        /\ Quiescent => investorStates[lastCall.key].strategyId = lastCall.body.strategyId
        /\ (lastCall.decision = PriorAllocation) => lastResponse.data.feeCharged = Zero

\* A deposit moved an account from strategy s1 to the grid strategy without
\* switching its allocation, and paid no fee.
C16_Witness ==
    /\ Accepted /\ Quiescent
    /\ lastCall.pre.strategyId = "s1"
    /\ lastCall.body.strategyId = GridStrategy
    /\ investorStates[lastCall.key].strategyId = GridStrategy
    /\ lastCall.decision = lastCall.pre.allocation
    /\ lastResponse.data.feeCharged = Zero

\* lastDecisionAt of investor i before its first deposit: new Date(0).
DecidedBefore(i) ==
    IF i \in DOMAIN investorStates THEN investorStates[i].lastDecisionAt ELSE Epoch

\* C17: no step lowers an account's lastDecisionAt (a new account counts
\* from the epoch), and a successful deposit sets it to the time of that
\* deposit and returns it as decidedAt.
C17_LastDecisionAtMonotone ==
    [][ /\ \A i \in DOMAIN investorStates' :
              investorStates'[i].lastDecisionAt >= DecidedBefore(i)
        /\ (AnswersDeposit /\ lastCall'.outcome = "ok") =>
              /\ investorStates'[lastCall'.key].lastDecisionAt = now
              /\ lastResponse'.data.decidedAt = now ]_vars

\* A later deposit to an account was stamped with a later time.
C17_Witness ==
    /\ Accepted /\ Quiescent
    /\ lastCall.pre # NoAccount
    /\ lastCall.pre.lastDecisionAt > StartTime
    /\ lastResponse.data.decidedAt > lastCall.pre.lastDecisionAt
    /\ investorStates[lastCall.key].lastDecisionAt = lastResponse.data.decidedAt

\* C18: the record a successful deposit returns carries the balance and the
\* allocation stored for the account after the deposit, and the platform
\* total as it stands with this deposit's fee added.
C18_ResultMirrorsState ==
    (Accepted /\ Quiescent) =>
        LET data == lastResponse.data
            account == investorStates[lastCall.key]
        IN  /\ data.newBalance = account.balance
            /\ data.allocation = account.allocation
            /\ data.platformTotalFees = platformTotalFees
            /\ data.platformTotalFees = NumAdd(lastCall.preTotal, data.feeCharged)

\* A fee was charged on top of fees already collected, and reported.
C18_Witness ==
    /\ Accepted /\ Quiescent
    /\ lastCall.preTotal # Zero
    /\ lastResponse.data.feeCharged # Zero
    /\ lastResponse.data.platformTotalFees = platformTotalFees
    /\ lastResponse.data.platformTotalFees # lastCall.preTotal

\* Values of the asset field: omitted, empty, and two labels.
AssetInputs == {Undefined, "", "XLM", "USDC"}
\* asset || 'XLM' (line 226)
ReportedAsset(asset) == IF Falsy(asset) THEN "XLM" ELSE asset
\* The ledger the last answered deposit started from, as far as its
\* investor is concerned.
LedgerBefore ==
    [accounts |-> IF lastCall.pre = NoAccount THEN [i \in {} |-> NoAccount]
                  ELSE [i \in {lastCall.key} |-> lastCall.pre],
     total |-> lastCall.preTotal]

\* C19: the result of an accepted deposit reports the asset sent, or XLM
\* when none was sent; and the same deposit sent with any other asset, from
\* the same ledger with the same decision, leaves the same account and
\* platform total and returns the same record but for the asset field.
C19_AssetCarriedThroughOnly ==
    Accepted =>
        /\ lastResponse.data.asset = ReportedAsset(lastCall.body.asset)
        /\ \A asset \in AssetInputs :
              \E ups \in TieChoices :
                LET other == SerialDeposit(LedgerBefore,
                                           [lastCall.body EXCEPT !.asset = asset],
                                           lastCall.decision,
                                           lastResponse.data.decidedAt, ups)
                IN  /\ other.data =
                          [lastResponse.data EXCEPT !.asset = ReportedAsset(asset)]
                    /\ Quiescent =>
                          /\ other.accounts[lastCall.key] = investorStates[lastCall.key]
                          /\ other.total = platformTotalFees

\* A deposit that names USDC switched the allocation and was charged.
C19_Witness ==
    /\ Switched /\ Quiescent
    /\ lastCall.body.asset = "USDC"
    /\ lastResponse.data.asset = "USDC"
    /\ lastResponse.data.feeCharged # Zero

\* This step answers a successful pause / resume of id, or the listing.
PauseApplied(id) ==
    AnswersNonDeposit /\ lastCall'.kind = "pause" /\ lastCall'.outcome = "ok"
        /\ lastCall'.key = id
ResumeApplied(id) ==
    AnswersNonDeposit /\ lastCall'.kind = "resume" /\ lastCall'.outcome = "ok"
        /\ lastCall'.key = id
ListingAnswered == AnswersNonDeposit /\ lastCall'.kind = "strategies"

\* C20: every id starts ACTIVE; a successful pause of an id leaves it
\* PAUSED, a successful resume leaves it ACTIVE, and every other step
\* (operations on other ids included) leaves its status as it was; the map
\* holds only ACTIVE and PAUSED; and the listing reports the status so
\* determined.
C20_StatusByLastOperation ==
    /\ \A id \in StrategyIds : StatusOf(id) = "ACTIVE"
    /\ [][ /\ \A id \in StrategyIds :
                 /\ PauseApplied(id) => StatusOf(id)' = "PAUSED"
                 /\ ResumeApplied(id) => StatusOf(id)' = "ACTIVE"
                 /\ ~(PauseApplied(id) \/ ResumeApplied(id)) =>
                        StatusOf(id)' = StatusOf(id)
           /\ \A id \in DOMAIN strategyStatus' :
                 strategyStatus'[id] \in {"ACTIVE", "PAUSED"}
           /\ ListingAnswered =>
                 /\ lastResponse'.data.id = GridStrategy
                 /\ lastResponse'.data.status = StatusOf(GridStrategy) ]_vars

\* The listing reported PAUSED for the strategy a pause had last acted on.
C20_Witness ==
    /\ lastCall.kind = "strategies"
    /\ lastResponse.data.status = "PAUSED"
    /\ StatusOf(GridStrategy) = "PAUSED"

\* This step answers a pause or resume request sent with id.
PauseOrResumeAnswered(id) ==
    AnswersNonDeposit /\ lastCall'.kind \in {"pause", "resume"} /\ lastCall'.key = id

\* C21: a pause or resume whose id is missing or empty is answered 400
\* 'Validation failed' and leaves strategyStatus unchanged.
C21_MissingIdRejected ==
    [][ \A id \in {Undefined, ""} :
            PauseOrResumeAnswered(id) =>
                /\ lastResponse'.status = 400
                /\ lastResponse'.error = "Validation failed"
                /\ strategyStatus' = strategyStatus ]_vars

\* A pause with an empty id was rejected while a strategy was PAUSED.
C21_Witness ==
    /\ lastCall.kind = "pause" /\ lastCall.outcome = "rejected"
    /\ lastCall.key = ""
    /\ lastResponse.status = 400
    /\ \E id \in DOMAIN strategyStatus : strategyStatus[id] = "PAUSED"

\* The last answered deposit, pause or resume got one of the three
\* responses: success, validation error, generic failure.
UniformResponse ==
    \/ lastCall.outcome = "ok" /\ lastResponse.status = 200 /\ lastResponse.error = ""
    \/ lastCall.outcome = "rejected" /\ lastResponse = [lastResponse EXCEPT
                                              !.status = 400,
                                              !.error = "Validation failed"]
    \/ lastCall.outcome = "failed" /\ lastResponse = DepositFailed

\* C22: every deposit, pause and resume gets one response, which is a
\* success, a validation error or the generic failure; a request that has
\* begun can always be brought to its response; each response answers a
\* request not answered before; and after a request that failed the server
\* is ready for the next one.
C22_UniformErrorBoundary ==
    /\ [](lastCall.kind \in {"deposit", "pause", "resume"} => UniformResponse)
    /\ [](\A fr \in frames :
            fr.id < nextId /\ lastCall.id < fr.id
            /\ ENABLED (CompleteDeposit(fr) \/ \E p \in FaultPoints : FailDeposit(fr, p)))
    /\ [][ /\ lastCall'.id # lastCall.id =>
                 /\ lastCall'.id > lastCall.id
                 /\ \/ lastCall'.id = nextId /\ nextId' = nextId + 1 /\ frames' = frames
                    \/ \E fr \in frames : fr.id = lastCall'.id /\ frames' = frames \ {fr}
           /\ frames' # frames => (lastCall'.id # lastCall.id \/ nextId' = nextId + 1)
           /\ (lastCall'.id # lastCall.id /\ lastCall'.outcome # "ok") => CanDispatch' ]_vars

\* A deposit succeeded for an account that an earlier deposit, answered
\* 'Deposit failed', had left behind.
C22_Witness ==
    /\ Accepted /\ Quiescent
    /\ lastCall.pre # NoAccount
    /\ audit.deposited[lastCall.key] = ToNumber(lastCall.body.amount)
    /\ lastResponse.status = 200

\* The first constraint of line 183 that a rejected body violates, in the
\* order of the test: investor, strategyId, amount.
FirstViolated(body) ==
    IF Falsy(body.investor) THEN "investor"
    ELSE IF Falsy(body.strategyId) THEN "strategyId"
    ELSE "amount"

\* One rejected deposit is answered right after another.
RejectedAfterRejected ==
    /\ lastCall.kind = "deposit" /\ lastCall.outcome = "rejected"
    /\ lastCall'.kind = "deposit" /\ lastCall'.outcome = "rejected"
    /\ lastCall'.id # lastCall.id

\* C23: the message of a rejected deposit is that of the first constraint
\* the body violates, in the order investor, strategyId, amount: two
\* rejected deposits whose first violated constraints differ are answered
\* with different messages.
C23_FirstViolatedMessage ==
    [][ (RejectedAfterRejected
         /\ FirstViolated(lastCall'.body) # FirstViolated(lastCall.body))
            => lastResponse'.message # lastResponse.message ]_vars

\* The investors whose deposit this step receives, completes or rejects.
DepositorsOfStep ==
    {fr.body.investor : fr \in (frames \cup frames') \ (frames \cap frames')}
    \cup (IF AnswersDeposit THEN {lastCall'.key} ELSE {})

\* C24: a deposit for one investor, accepted or rejected, leaves every other
\* investor's balance, allocation, strategyId and lastDecisionAt as they
\* were; a rejected deposit changes no account at all.
C24_CrossInvestorIsolation ==
    [][ /\ \A b \in Investors \cup DOMAIN investorStates \cup DOMAIN investorStates' :
               (Lookup(investorStates', b) # Lookup(investorStates, b))
                   => (DepositorsOfStep = {b})
        /\ (AnswersDeposit /\ lastCall'.outcome = "rejected")
               => (investorStates' = investorStates) ]_vars

\* A deposit for one investor was accepted and switched allocation while
\* the other investor holds an account with a balance.
C24_Witness ==
    /\ Accepted /\ Quiescent /\ Switched
    /\ \E b \in DOMAIN investorStates \ {lastCall.key} :
           NumLt(Zero, investorStates[b].balance)

\* ------------------------------------------------ StrategyManager claims
\* The objects made so far.
Objects == 1..Len(heap)

\* C25: soroswapService.executeTrade is invoked only for a strategy whose
\* status is ACTIVE at the moment of the call, whatever pauseStrategy and
\* stopStrategy calls interleave with the monitor pass.
C25_TradesOnlyWhenActive == lastStep.tradeStatus \in {"NONE", "ACTIVE"}

\* C26: the totalTrades of a DCA strategy never exceeds its maxInvestments,
\* also when passes of the two timers overlap.
C26_DcaCap ==
    \A r \in Objects :
        heap[r].type = "DCA" => heap[r].performance.totalTrades <= heap[r].maxInvestments

\* This step starts a monitor pass.
PassStarts == counts'.fires = counts.fires + 1
\* stop() has been called and the manager has not been started since.
Stopped == counts.stops > 0 /\ ~isRunning /\ pendingInit = 0

ThrowsIn(p) ==
    /\ p \notin passes'
    /\ lastStep'.pass = p.id
    /\ lastStep'.outcome = "throws"
\* Positions after that of `p` that hold an ACTIVE strategy.
ActiveAfter(p) ==
    {j \in (p.idx + 1)..Len(order) : heap[strategies[order[j]]].status = "ACTIVE"}

\* C28: when a trade or a lookup fails for one strategy, no counter of any
\* strategy changes, neither event is emitted, and the pass goes on with
\* the next ACTIVE strategy: it ends only when none is left.
C28_FailureIsolation ==
    [][ \A p \in passes :
            ThrowsIn(p) =>
                /\ heap' = heap
                /\ lastStep'.signals = 0 /\ lastStep'.updates = 0
                /\ lastStep'.tradeStatus = "NONE"
                /\ IF ActiveAfter(p) = {}
                   THEN \A q \in passes' : q.id # p.id
                   ELSE \E q \in passes' :
                           /\ q.id = p.id
                           /\ q.idx \in ActiveAfter(p)
                           /\ \A j \in ActiveAfter(p) : q.idx <= j
                           /\ q.stage \in {"price", "analysis"} ]_vars

\* The trade of the first strategy threw, it has no trade counted, and the
\* pass is waiting in a later strategy.
C28_Witness ==
    /\ lastStep.op = "trade" /\ lastStep.outcome = "throws"
    /\ heap[lastStep.ref].performance.totalTrades = 0
    /\ \E q \in passes : q.id = lastStep.pass /\ q.ref # lastStep.ref /\ q.idx > 1

\* C29: in every strategy totalTrades = winningTrades + losingTrades and
\* netProfit = totalProfit - totalLoss, and no step lowers one of the three
\* counters.
C29_PerformanceCounters ==
    /\ [](\A r \in Objects :
            LET p == heap[r].performance
            IN  /\ p.totalTrades = p.winningTrades + p.losingTrades
                /\ p.netProfit = NumSub(p.totalProfit, p.totalLoss))
    /\ [][ \A r \in Objects :
              /\ heap'[r].performance.totalTrades >= heap[r].performance.totalTrades
              /\ heap'[r].performance.winningTrades >= heap[r].performance.winningTrades
              /\ heap'[r].performance.losingTrades >= heap[r].performance.losingTrades ]_vars

\* A strategy has won one trade and lost two, one of them with a profit
\* that is not a number.
C29_Witness ==
    \E r \in Objects :
        /\ heap[r].performance.winningTrades = 1
        /\ heap[r].performance.losingTrades = 2
        /\ heap[r].performance.totalLoss = NaN
        /\ heap[r].performance.totalProfit = Fin(1, 0)

\* The status each method stores.
TargetStatus(op) ==
    CASE op = "startStrategy" -> "ACTIVE"
      [] op = "stopStrategy" -> "STOPPED"
      [] op = "pauseStrategy" -> "PAUSED"
\* This step is a call of one of the three status methods.
StatusCall ==
    /\ counts'.calls = counts.calls + 1
    /\ lastStep'.op \in {"startStrategy", "stopStrategy", "pauseStrategy"}

\* C30: on an id not in the map a status method fails with 'Strategy not
\* found', emits no 'strategy_update' and changes no strategy; on a known
\* id it stores its status whatever the status was, emits exactly one
\* 'strategy_update' and changes no other strategy.
C30_StatusMethods ==
    [][ StatusCall =>
          /\ strategies' = strategies /\ order' = order
          /\ IF lastStep'.id \notin DOMAIN strategies
             THEN /\ lastStep'.outcome = "Strategy not found"
                  /\ lastStep'.updates = 0
                  /\ heap' = heap
             ELSE /\ lastStep'.outcome = "ok"
                  /\ lastStep'.updates = 1
                  /\ heap'[strategies[lastStep'.id]].status = TargetStatus(lastStep'.op)
                  /\ \A r \in Objects \ {strategies[lastStep'.id]} : heap'[r] = heap[r] ]_vars

\* pauseStrategy has made PAUSED a strategy that was STOPPED.
C30_Witness ==
    /\ lastStep.op = "pauseStrategy" /\ lastStep.outcome = "ok"
    /\ lastStep.prior = "STOPPED"
    /\ heap[lastStep.ref].status = "PAUSED"
    /\ lastStep.updates = 1
=============================================================================
